---- MODULE Spec2Model ----
(***************************************************************************)
(* A model of the AI tool pages of anb-codedev: the click handlers of the  *)
(* code explainer, documentation generator, test generator, security       *)
(* audit, advanced analysis and code runner pages, the completion client   *)
(* (GroqService.executeWithGroq) and the groq-proxy edge function.         *)
(*                                                                         *)
(* Text is modelled as a sequence of tokens.  A token is a short string    *)
(* standing for itself ("'''" is a code fence of three backquotes, "\n" a  *)
(* line break, "x" and "js" are words matched by \w+, "//" a comment       *)
(* marker).  The regular                                                   *)
(* expressions of the source are translated to operators on token          *)
(* sequences.                                                              *)
(***************************************************************************)
EXTENDS Integers, Sequences, FiniteSets, TLC

(***************************************************************************)
(* Bounds of the model.                                                    *)
(***************************************************************************)
\* handler instances that may be suspended at an await at the same time
MaxInflight == 2

(***************************************************************************)
(* Tokens and text helpers.                                                *)
(***************************************************************************)
Fence == "'''"
NL == "\n"
SP == " "
Slashes == "//"

WordTokens == {"x", "js", "ERROR", "javascript", "unknown"}
SpaceTokens == {NL, SP}

IsWord(t) == t \in WordTokens
IsSpace(t) == t \in SpaceTokens

Range(s) == {s[i] : i \in 1..Len(s)}

\* String.prototype.length, counted in characters of the tokens
TokLen(t) ==
  CASE t = Fence -> 3
    [] t = Slashes -> 2
    [] t = "js" -> 2
    [] t = "ERROR" -> 5
    [] t = ": JSX" -> 5
    [] t = "javascript" -> 10
    [] t = "unknown" -> 7
    [] t = "className=" -> 10
    [] t = "<div" -> 4
    [] t = "return (" -> 8
    [] t = "function add(" -> 13
    [] t = "Do something" -> 12
    [] t = "Return a value" -> 14
    [] t = "Define a function" -> 17
    [] OTHER -> 1

RECURSIVE CharLen(_)
CharLen(s) == IF s = <<>> THEN 0 ELSE TokLen(Head(s)) + CharLen(Tail(s))

\* String.prototype.includes for a token sequence
Includes(s, sub) ==
  \E i \in 1..(Len(s) - Len(sub) + 1) : SubSeq(s, i, i + Len(sub) - 1) = sub

\* String.prototype.trim
RECURSIVE TrimLeft(_)
TrimLeft(s) == IF s # <<>> /\ IsSpace(Head(s)) THEN TrimLeft(Tail(s)) ELSE s

RECURSIVE TrimRight(_)
TrimRight(s) ==
  IF s # <<>> /\ IsSpace(s[Len(s)]) THEN TrimRight(SubSeq(s, 1, Len(s) - 1)) ELSE s

Trim(s) == TrimRight(TrimLeft(s))

\* the sentinel the prompts ask the model to answer for markup input
Sentinel == <<"ERROR", ": JSX">>

(***************************************************************************)
(* Response normalisation, as written at the call sites.                   *)
(***************************************************************************)
RECURSIVE DropWords(_)
DropWords(s) == IF s # <<>> /\ IsWord(Head(s)) THEN DropWords(Tail(s)) ELSE s

DropOneNL(s) == IF s # <<>> /\ Head(s) = NL THEN Tail(s) ELSE s

\* .replace(/'''[\w]*\n?/g, "")  (the three quotes stand for the backquotes)
RECURSIVE StripFenceLang(_)
StripFenceLang(s) ==
  IF s = <<>> THEN <<>>
  ELSE IF Head(s) = Fence THEN StripFenceLang(DropOneNL(DropWords(Tail(s))))
  ELSE <<Head(s)>> \o StripFenceLang(Tail(s))

\* .replace(/'''/g, "")
StripFences(s) == SelectSeq(s, LAMBDA t : t # Fence)

\* .replace(/[\r\n]+/g, "\n")
RECURSIVE CollapseNewlines(_)
CollapseNewlines(s) ==
  IF s = <<>> THEN <<>>
  ELSE IF Head(s) = NL /\ Tail(s) # <<>> /\ Head(Tail(s)) = NL
       THEN CollapseNewlines(Tail(s))
  ELSE <<Head(s)>> \o CollapseNewlines(Tail(s))

RECURSIVE SpaceRunLen(_)
SpaceRunLen(s) == IF s # <<>> /\ IsSpace(Head(s)) THEN 1 + SpaceRunLen(Tail(s)) ELSE 0

\* .replace(/(\n\s*){3,}/g, "\n\n"): a match starts at a line break and takes
\* the whole run of white space after it when the run holds three line breaks
RECURSIVE CollapseBlank(_)
CollapseBlank(s) ==
  IF s = <<>> THEN <<>>
  ELSE IF Head(s) = NL /\ Cardinality({i \in 1..SpaceRunLen(s) : s[i] = NL}) >= 3
       THEN <<NL, NL>> \o CollapseBlank(SubSeq(s, SpaceRunLen(s) + 1, Len(s)))
  ELSE <<Head(s)>> \o CollapseBlank(Tail(s))

\* CodeExplanation.tsx: the "Clean output" chain
CleanExplain(s) == Trim(CollapseBlank(CollapseNewlines(StripFences(StripFenceLang(s)))))

\* TestGenerator and DocumentationGenerator: strip the fences and trim
CleanFenced(s) == Trim(StripFences(StripFenceLang(s)))

(***************************************************************************)
(* The completion path: upstream provider -> groq-proxy -> executeWithGroq *)
(***************************************************************************)
\* JSON bodies are functions from field names to text; "choices" stands for
\* the path choices[0].message.content of the provider's answer.
NoFields == [f \in {} |-> <<>>]
Field(name, text) == [f \in {name} |-> text]
Has(d, name) == name \in DOMAIN d

HttpOk(status) == status >= 200 /\ status < 300

\* supabase/functions/groq-proxy/index.ts: what the browser receives for a
\* given behaviour of the upstream provider
GroqProxy(up) ==
  CASE up.kind = "nokey" ->
         [status |-> 500, json |-> TRUE, text |-> <<>>,
          fields |-> Field("error", <<"GROQ_API_KEY not configured">>)]
    [] up.kind = "unreachable" ->
         [status |-> 500, json |-> TRUE, text |-> <<>>,
          fields |-> Field("error", <<"fetch failed">>)]
    [] up.kind = "http" /\ ~HttpOk(up.status) ->
         IF up.json
         THEN [status |-> up.status, json |-> TRUE, text |-> <<>>, fields |-> up.fields]
         ELSE [status |-> up.status, json |-> TRUE, text |-> <<>>,
               fields |-> Field("error", up.text)]
    [] OTHER ->
         IF up.json
         THEN [status |-> 200, json |-> TRUE, text |-> <<>>, fields |-> up.fields]
         ELSE [status |-> 200, json |-> FALSE, text |-> up.text, fields |-> NoFields]

Thrown(msg) == [ok |-> FALSE, text |-> msg]
Returned(text) == [ok |-> TRUE, text |-> text]

\* data.response ?? data.generatedCode ?? data.content ?? ''
PickText(d) ==
  IF Has(d, "response") THEN d["response"]
  ELSE IF Has(d, "generatedCode") THEN d["generatedCode"]
  ELSE IF Has(d, "content") THEN d["content"]
  ELSE <<>>

\* GroqService.executeWithGroq on the proxy's response; net = FALSE is a
\* fetch that rejects (no connection to the proxy)
ExecuteWithGroq(net, resp) ==
  IF ~net THEN Thrown(<<"Failed to fetch">>)
  ELSE IF ~HttpOk(resp.status) THEN Thrown(<<"Groq proxy error">>)
  ELSE IF ~resp.json THEN Thrown(<<"Unexpected token">>)
  ELSE Returned(PickText(resp.fields))

\* a client that sends the request again when the first fetch has settled
FetchesWithRetry == 1 + 1

\* the requests one executeWithGroq call sends: a single fetch, in no loop
FetchesPerCall == 1

\* one completion round trip: the browser's fetch, the proxy, the provider
Complete(net, up) == ExecuteWithGroq(net, GroqProxy(up))

(***************************************************************************)
(* GroqService: cleanCodeResponse and the methods built on executeWithGroq *)
(***************************************************************************)
\* .replace(/^'''(?:\w+)?\n([\s\S]*?)\n'''$/gm, "$1"): a fenced block that
\* starts and ends on line boundaries is replaced by its body
RECURSIVE UnwrapFences(_, _)
UnwrapFences(s, atLineStart) ==
  IF s = <<>> THEN <<>>
  ELSE LET body == DropWords(Tail(s))
           rest == IF body = <<>> THEN <<>> ELSE Tail(body)
           Closers == {k \in 0..(Len(rest) - 2) :
                         /\ rest[k + 1] = NL
                         /\ rest[k + 2] = Fence
                         /\ (k + 2 = Len(rest) \/ rest[k + 3] = NL)}
           k == CHOOSE c \in Closers : \A d \in Closers : c <= d
       IN IF atLineStart /\ Head(s) = Fence /\ body # <<>> /\ Head(body) = NL
             /\ Closers # {}
          THEN SubSeq(rest, 1, k) \o UnwrapFences(SubSeq(rest, k + 3, Len(rest)), FALSE)
          ELSE <<Head(s)>> \o UnwrapFences(Tail(s), Head(s) = NL)

\* .replace(/^\s*\n+/, ""): the leading white space up to its last line break
DropLeadingBlank(s) ==
  LET run == SpaceRunLen(s)
      Breaks == {i \in 1..run : s[i] = NL}
      lastBreak == CHOOSE i \in Breaks : \A j \in Breaks : j <= i
  IN IF Breaks = {} THEN s ELSE SubSeq(s, lastBreak + 1, Len(s))

\* the rest of a line after its first line break, nothing if it has none
RECURSIVE AfterLine(_)
AfterLine(s) ==
  IF s = <<>> THEN <<>> ELSE IF Head(s) = NL THEN Tail(s) ELSE AfterLine(Tail(s))

\* .replace(/^\s*\/\/.*\n?/gm, ""): lines that hold a comment only, with the
\* white space before them
RECURSIVE RemoveCommentLines(_, _)
RemoveCommentLines(s, atLineStart) ==
  IF s = <<>> THEN <<>>
  ELSE LET afterSpace == SubSeq(s, SpaceRunLen(s) + 1, Len(s))
       IN IF atLineStart /\ afterSpace # <<>> /\ Head(afterSpace) = Slashes
          THEN RemoveCommentLines(AfterLine(afterSpace), TRUE)
          ELSE <<Head(s)>> \o RemoveCommentLines(Tail(s), Head(s) = NL)

RECURSIVE NLRunLen(_)
NLRunLen(s) == IF s # <<>> /\ Head(s) = NL THEN 1 + NLRunLen(Tail(s)) ELSE 0

\* .replace(/\n{3,}/g, "\n\n")
RECURSIVE CollapseNL3(_)
CollapseNL3(s) ==
  IF s = <<>> THEN <<>>
  ELSE IF NLRunLen(s) >= 3
       THEN <<NL, NL>> \o CollapseNL3(SubSeq(s, NLRunLen(s) + 1, Len(s)))
  ELSE <<Head(s)>> \o CollapseNL3(Tail(s))

\* GroqService.cleanCodeResponse; the disclaimer and introduction patterns
\* match none of the texts built from the tokens of the model
CleanCodeResponse(code) ==
  Trim(CollapseNL3(RemoveCommentLines(
         DropLeadingBlank(StripFences(Trim(UnwrapFences(code, TRUE)))), TRUE)))
    \o <<NL>>

HandlerTypes ==
  {"code-generation", "test-generation", "code-explanation", "debug-refactor",
   "documentation", "security-audit", "code-optimization", "other"}

\* the GroqService method callAIFunction selects, applied to the outcome of
\* the method's executeWithGroq call
GroqMethod(handlerType, ret) ==
  CASE handlerType = "code-generation" ->
         IF ret.ok THEN Returned(CleanCodeResponse(ret.text))
         ELSE Thrown(<<"Failed to generate code.">>)
    [] handlerType = "test-generation" ->
         IF ret.ok THEN Returned(CleanCodeResponse(ret.text)) ELSE ret
    [] handlerType = "other" -> Thrown(<<"Unsupported handler type">>)
    [] OTHER -> ret

(***************************************************************************)
(* Inputs of the model.                                                    *)
(***************************************************************************)
Tools == {"explain", "document", "test", "audit", "analyze", "run", "generate"}

\* what the user may have typed or pasted into the page's editor
Sources ==
  { <<>>, <<SP>>, <<"x">>, <<"function add(">>, <<"className=">>, <<"<div">>,
    <<"return (">>, <<"x", NL, "<div">> }

\* completion texts a provider may answer with
ProviderTexts ==
  { <<>>, <<"x">>, <<Slashes, "x">>, <<Fence, "js", NL, Slashes, "x", NL, Fence>>,
    Sentinel, <<"javascript">> }

Http(status, json, fields, text) ==
  [kind |-> "http", status |-> status, json |-> json, fields |-> fields, text |-> text]

\* what the upstream provider (GROQ_API_URL) may do with a forwarded request
Upstreams ==
  { [kind |-> "nokey", status |-> 0, json |-> FALSE, fields |-> NoFields, text |-> <<>>],
    [kind |-> "unreachable", status |-> 0, json |-> FALSE, fields |-> NoFields,
     text |-> <<>>],
    Http(200, TRUE, NoFields, <<>>),
    Http(200, FALSE, NoFields, <<"x">>),
    Http(429, TRUE, Field("error", <<"rate limit">>), <<>>),
    Http(500, FALSE, NoFields, <<"x">>) }
  \cup {Http(200, TRUE, Field("choices", t), <<>>) : t \in ProviderTexts}
  \cup {Http(200, TRUE, Field("response", t), <<>>) : t \in ProviderTexts}

NoUp == [kind |-> "none", status |-> 0, json |-> FALSE, fields |-> NoFields, text |-> <<>>]
NoRet == [ok |-> FALSE, text |-> <<"no call">>]

\* the provider's answer to a request, none when the request never left
Reached(net, up) == IF net THEN up ELSE NoUp

Users == {"none", "u1"}

(***************************************************************************)
(* State.                                                                  *)
(***************************************************************************)
VARIABLES
  tool,        \* the page that is mounted
  user,        \* useAuth().user: "none" when signed out
  sourceCode,  \* the editor's text (sourceCode / code / activeFile.content)
  identifier,  \* the identifier state of the test and documentation pages
  optionsOk,   \* documentation page: every selected option value is a known one
  isWeb,       \* code runner: the active file runs in the browser preview
  busy,        \* isExplaining / isGenerating / loading / isAnalyzing / running
  result,      \* the text of the result pane
  origin,      \* where the text of the result pane came from
  calls,       \* the handler instances suspended at an await
  api,         \* the last call of AIApiCaller or ApiResponseHandler, with its results
  pure,        \* a function or a component exercised on its own, apart from the
               \* pages: its inputs, its state and its results
  failureToast, \* the toast of the last handler instance whose completion call failed
  last         \* the handler instance that ended in the last step, if one did,
               \* with what it left: toast, result pane, rows inserted

pageVars == <<tool, user, sourceCode, identifier, optionsOk, isWeb, busy, result,
              origin, calls, failureToast, last>>

vars == <<pageVars, api, pure>>

\* no call of the API caller or of a response handler has been made
NoApi == [fn |-> "none", handlerType |-> "", fallback |-> <<>>, outputs |-> <<>>]

\* no pure function is being evaluated on its own
NoPure == [fn |-> "none"]

Toast(title, description, destructive) ==
  [title |-> title, description |-> description, destructive |-> destructive]
NoToast == Toast("", <<>>, FALSE)

NoLast ==
  [outcome |-> "none", src |-> <<>>, sent |-> 0, toast |-> NoToast, shown |-> <<>>,
   shownFrom |-> "none", up |-> NoUp, ret |-> NoRet, fallbackRan |-> FALSE,
   rows |-> <<>>, out |-> <<>>, saved |-> "none"]

\* a handler instance suspended at an await: where it waits, the source text,
\* identifier and language it closed over, the completion requests it has
\* sent, its completion call's upstream answer and outcome, whether it ran a
\* fallback synthesizer, the text it is about to save, and the rows it has
\* inserted into code_executions, and how its history write went ("none" when
\* it made none)
Call(pc, src, id, lang, sent, up, ret, fb, out) ==
  [pc |-> pc, src |-> src, id |-> id, lang |-> lang, sent |-> sent, up |-> up,
   ret |-> ret, fb |-> fb, out |-> out, rows |-> <<>>, saved |-> "none"]

Finished(outcome, c, toast, shown, shownFrom) ==
  [outcome |-> outcome, src |-> c.src, sent |-> c.sent, toast |-> toast,
   shown |-> shown, shownFrom |-> shownFrom, up |-> c.up, ret |-> c.ret,
   fallbackRan |-> c.fb, rows |-> c.rows, out |-> c.out, saved |-> c.saved]

RemoveAt(s, i) == SubSeq(s, 1, i - 1) \o SubSeq(s, i + 1, Len(s))

\* the row a page inserts into code_executions
Row(tag, c) == [user |-> user, tag |-> tag, code |-> c.src, output |-> c.out]

(***************************************************************************)
(* Local helpers of the pages.                                             *)
(***************************************************************************)
\* errorHandler.ts validateRequired
ValidateRequired(value) == ~(value = <<>> \/ Trim(value) = <<>>)

\* CodeExplanation.tsx "BLOCK JSX/HTML EARLY": the regular expression
\* /<Card|className|ref=|React\.|tsx|jsx|<\w+/ matches the tokens
\* "className=" and "<div"; the two includes() look for "<div" and "return ("
ExplainBlocks(trimmed) ==
  \/ \E t \in Range(trimmed) : t \in {"className=", "<div"}
  \/ "<div" \in Range(trimmed)
  \/ "return (" \in Range(trimmed)

\* DocumentationGenerator.tsx "BLOCK JSX/HTML": the regular expression
\* /<Card|className|ref=|React\.|tsx|jsx|return\s*\(/ matches "className="
\* and "return ("; includes() looks for "<div"
DocumentBlocks(trimmed) ==
  \/ \E t \in Range(trimmed) : t \in {"className=", "return ("}
  \/ "<div" \in Range(trimmed)

\* the identifier a token holds for /([A-Za-z_$][A-Za-z0-9_$]*)/, "" if none
IdOf(t) ==
  CASE t = "function add(" -> "function"
    [] t = "className=" -> "className"
    [] t = "<div" -> "div"
    [] t = "return (" -> "return"
    [] IsWord(t) -> t
    [] OTHER -> ""

RECURSIVE FirstId(_)
FirstId(s) ==
  IF s = <<>> THEN "" ELSE IF IdOf(Head(s)) # "" THEN IdOf(Head(s)) ELSE FirstId(Tail(s))

\* codeAnalysis extractIdentifier without a language: the keyword pattern
\* first, then any identifier, then "code"
ExtractIdentifier(code) ==
  IF "function add(" \in Range(code) THEN "add"
  ELSE IF FirstId(code) # "" THEN FirstId(code)
  ELSE "code"

Count(s, t) == Cardinality({i \in 1..Len(s) : s[i] = t})

\* codeAnalysis detectLanguage, the pattern scoring: of the tokens of the
\* model only "function add(" matches a pattern (javascript, weight 2 with
\* the g flag, weight 1 without)
PatternScore(code) ==
  IF Count(code, "function add(") > 0 THEN 2 * Count(code, "function add(") + 1 ELSE 0

DetectByPatterns(code) == IF PatternScore(code) > 0 THEN <<"javascript">> ELSE <<"unknown">>

Lower(t) == IF t = "ERROR" THEN "error" ELSE t

\* result.trim().toLowerCase().split(' ')[0].replace(/[^a-z]/g, '')
RECURSIVE FirstWordLetters(_)
FirstWordLetters(s) ==
  IF s = <<>> \/ Head(s) = SP \/ Head(s) = ": JSX" THEN <<>>
  ELSE IF IsWord(Head(s)) THEN <<Lower(Head(s))>> \o FirstWordLetters(Tail(s))
  ELSE FirstWordLetters(Tail(s))

\* AIService.detectLanguage on the completion call's outcome
AiDetectLanguage(ret) == IF ret.ok THEN FirstWordLetters(Trim(ret.text)) ELSE <<"unknown">>

\* codeAnalysis detectLanguage with the default configuration (useAI)
DetectLanguage(code, ret) ==
  IF Trim(code) = <<>> THEN <<"text">>
  ELSE IF AiDetectLanguage(ret) # <<>> /\ AiDetectLanguage(ret) # <<"unknown">>
  THEN AiDetectLanguage(ret)
  ELSE DetectByPatterns(code)

\* TestGenerator getFramework
GetFramework(lang) == IF lang = <<"javascript">> THEN "Jest" ELSE "Unknown"

RECURSIVE SplitLines(_)
SplitLines(s) ==
  IF NL \notin Range(s) THEN <<s>>
  ELSE LET k == CHOOSE i \in 1..Len(s) : s[i] = NL /\ \A j \in 1..(i - 1) : s[j] # NL
       IN <<SubSeq(s, 1, k - 1)>> \o SplitLines(SubSeq(s, k + 1, Len(s)))

RECURSIVE JoinLines(_)
JoinLines(ls) ==
  IF ls = <<>> THEN <<>>
  ELSE IF Len(ls) = 1 THEN Head(ls)
  ELSE Head(ls) \o <<NL>> \o JoinLines(Tail(ls))

\* the comment of the keyword map, "Do something" for an unknown first word
CommentFor(line) ==
  LET first == Head(Trim(line))
  IN CASE first = "function add(" -> "Define a function"
       [] first = "return (" -> "Return a value"
       [] OTHER -> "Do something"

\* CodeExplanation.tsx "Fallback: keyword-based comments"
ExplainFallback(src) ==
  LET ls == SplitLines(src)
      Commented(line) ==
        IF Trim(line) = <<>> THEN line ELSE <<Slashes, SP, CommentFor(line), NL>> \o line
  IN JoinLines([i \in 1..Len(ls) |-> Commented(ls[i])])

\* DocumentationGenerator.tsx generateFallbackDocs
GenerateFallbackDocs(id) ==
  <<"#", IF id = "" THEN "Unknown" ELSE id, "Documentation", NL,
    "> Auto-generated fallback documentation.">>

\* TestGenerator generateFallbackTests: a template per language, a comment
\* naming the identifier and the framework for every other language
GenerateFallbackTests(lang, framework, id) ==
  IF lang = <<"javascript">>
  THEN <<"test('", id, "works', () => {", NL, "expect(true).toBe(true);", NL, "});">>
  ELSE <<Slashes, SP, "Tests for", id, NL, Slashes, SP, "Using", framework>>

(***************************************************************************)
(* Initial state: a page has just been mounted.  The explainer and the     *)
(* documentation page load shared code from the URL when it holds none of  *)
(* /<\w+|className|ref=/, the test page loads any shared code; the         *)
(* documentation page takes its option values from the URL as they are.    *)
(***************************************************************************)
UrlLoadable(code) == code # <<>> /\ ~(\E t \in Range(code) : t \in {"className=", "<div"})

\* the identifier effect of the documentation page
DocIdentifier(code) == IF Trim(code) # <<>> THEN ExtractIdentifier(code) ELSE "docs"

\* the identifier effect of the test page
TestIdentifier(code, old) == IF code # <<>> THEN ExtractIdentifier(code) ELSE old

\* a page right after it mounted
InitPages ==
  /\ tool \in Tools
  /\ user \in Users
  /\ \/ tool # "run" /\ sourceCode = <<>> /\ optionsOk = TRUE
     \/ tool = "run" /\ sourceCode = <<"<div">> /\ optionsOk = TRUE
     \/ /\ tool = "explain"
        /\ sourceCode \in {s \in Sources : UrlLoadable(s)}
        /\ optionsOk = TRUE
     \/ /\ tool = "test"
        /\ sourceCode \in Sources \ {<<>>}
        /\ optionsOk = TRUE
     \/ /\ tool = "document"
        /\ sourceCode \in {s \in Sources : UrlLoadable(s)}
        /\ optionsOk \in BOOLEAN
  /\ identifier = CASE tool = "document" -> DocIdentifier(sourceCode)
                    [] tool = "test" -> TestIdentifier(sourceCode, "unknown")
                    [] OTHER -> ""
  /\ isWeb = (tool = "run")
  /\ busy = FALSE
  /\ result = <<>>
  /\ origin = "none"
  /\ calls = <<>>
  /\ failureToast = NoToast
  /\ last = NoLast

Init ==
  /\ InitPages
  /\ api = NoApi
  /\ pure = NoPure

\* no handler instance ends in this step, and no toast is shown
NothingEnds ==
  /\ last' = NoLast
  /\ UNCHANGED failureToast

(***************************************************************************)
(* The user edits the page.                                                *)
(***************************************************************************)
\* onChange of the editor, with the effects that depend on sourceCode
\* the contents a file of the code runner may have: empty, code, markup
RunnerFiles == {<<>>, <<"x">>, <<"<div">>}

Edit ==
  /\ \E s \in (IF tool = "run" THEN RunnerFiles ELSE Sources) \ {sourceCode} :
       /\ sourceCode' = s
       /\ identifier' = CASE tool = "document" -> DocIdentifier(s)
                          [] tool = "test" -> TestIdentifier(s, identifier)
                          [] OTHER -> identifier
  /\ UNCHANGED <<api, pure, tool, user, optionsOk, isWeb, busy, result, origin, calls>>
  /\ NothingEnds

\* the user picks a known value in each Select of the documentation page
SelectOptions ==
  /\ tool = "document"
  /\ ~optionsOk
  /\ optionsOk' = TRUE
  /\ UNCHANGED <<api, pure, tool, user, sourceCode, identifier, isWeb, busy, result, origin, calls>>
  /\ NothingEnds

(***************************************************************************)
(* What every handler's try / catch / finally leaves.                      *)
(***************************************************************************)
\* a handler whose flag is cleared on its success path only
BusyKeptOnFailure(outcome) == outcome # "done"

\* the busy flag once the finally block has run, for each way the handler ends
AfterFinally(outcome) == FALSE

\* a handler that returns before it suspends
Returns(outcome, sent, toast, shown, shownFrom, fb) ==
  /\ last' = [outcome |-> outcome, src |-> sourceCode, sent |-> sent, toast |-> toast,
              shown |-> shown, shownFrom |-> shownFrom, up |-> NoUp, ret |-> NoRet,
              fallbackRan |-> fb, rows |-> <<>>, out |-> <<>>, saved |-> "none"]
  /\ UNCHANGED failureToast

\* a suspended handler instance i ends
Ends(i, outcome, c, toast, shown, shownFrom) ==
  /\ last' = Finished(outcome, c, toast, shown, shownFrom)
  /\ failureToast' = IF c.ret # NoRet /\ ~c.ret.ok THEN toast ELSE failureToast
  /\ calls' = RemoveAt(calls, i)
  /\ busy' = AfterFinally(outcome)

(***************************************************************************)
(* CodeExplanation.tsx handleExplain                                       *)
(***************************************************************************)
ExplainButtonEnabled == ~busy /\ Trim(sourceCode) # <<>>

ExplainClick ==
  /\ tool = "explain"
  /\ ExplainButtonEnabled
  /\ IF ~ValidateRequired(sourceCode)
     THEN /\ Returns("validation", 0, Toast("No Code", <<"Paste code first.">>, TRUE),
                     result, origin, FALSE)
          /\ UNCHANGED <<busy, calls>>
     ELSE IF ExplainBlocks(Trim(sourceCode))
     THEN /\ Returns("validation", 0,
                     Toast("Invalid Input", <<"Please paste real code">>, TRUE),
                     result, origin, FALSE)
          /\ UNCHANGED <<busy, calls>>
     ELSE /\ busy' = TRUE
          /\ calls' = Append(calls, Call("call", sourceCode, identifier, <<"unknown">>,
                                         FetchesPerCall, NoUp, NoRet, FALSE, <<>>))
          /\ NothingEnds
  /\ UNCHANGED <<api, pure, tool, user, sourceCode, identifier, optionsOk, isWeb, result, origin>>

\* the completion call of instance i settles
ExplainResolve(i) ==
  /\ tool = "explain"
  /\ calls[i].pc = "call"
  /\ \E net \in BOOLEAN, up \in Upstreams :
       LET ret == Complete(net, up)
           c == [calls[i] EXCEPT !.up = Reached(net, up), !.ret = ret]
           clean == CleanExplain(ret.text)
           useFallback == Slashes \notin Range(clean)
                            \/ 10 * CharLen(clean) < 6 * CharLen(c.src)
           text == IF useFallback THEN ExplainFallback(c.src) ELSE clean
       IN IF ~ret.ok
          THEN /\ Ends(i, "error", c, Toast("Error", ret.text, TRUE), result, origin)
               /\ UNCHANGED <<result, origin>>
          ELSE IF Includes(clean, Sentinel)
          THEN /\ Ends(i, "rejected", c,
                       Toast("Invalid Code", <<"This looks like React/JSX.">>, TRUE),
                       result, origin)
               /\ UNCHANGED <<result, origin>>
          ELSE /\ result' = text
               /\ origin' = IF useFallback THEN "fallback" ELSE "provider"
               /\ IF user # "none"
                  THEN /\ calls' = [calls EXCEPT ![i] =
                                      [c EXCEPT !.pc = "save", !.fb = useFallback,
                                                !.out = text]]
                       /\ busy' = busy
                  /\ NothingEnds
                  ELSE Ends(i, "done", [c EXCEPT !.fb = useFallback],
                            Toast("Done!", <<"explanation ready.">>, FALSE),
                            text, IF useFallback THEN "fallback" ELSE "provider")
  /\ UNCHANGED <<api, pure, tool, user, sourceCode, identifier, optionsOk, isWeb>>

\* the insert into code_executions of instance i settles; a failure is logged
ExplainSaved(i) ==
  /\ tool = "explain"
  /\ calls[i].pc = "save"
  /\ \E ok \in BOOLEAN :
       Ends(i, "done",
            [calls[i] EXCEPT !.saved = IF ok THEN "ok" ELSE "failed",
                             !.rows = IF ok THEN <<Row(<<"explain", "unknown">>, calls[i])>>
                                       ELSE <<>>],
            Toast("Done!", <<"explanation ready.">>, FALSE), result, origin)
  /\ UNCHANGED <<api, pure, tool, user, sourceCode, identifier, optionsOk, isWeb, result, origin>>

(***************************************************************************)
(* DocumentationGenerator.tsx handleGenerate                               *)
(***************************************************************************)
DocumentButtonEnabled == ~busy /\ Trim(sourceCode) # <<>>

\* detectLanguage(sourceCode).language starts the language-detection request
\* and does not await it; an unknown option value makes the label lookup
\* throw inside the try block, before the completion call
DocumentClick ==
  /\ tool = "document"
  /\ DocumentButtonEnabled
  /\ IF ~ValidateRequired(sourceCode)
     THEN /\ Returns("validation", 0, Toast("No Code", <<"Paste code first.">>, TRUE),
                     result, origin, FALSE)
          /\ UNCHANGED <<busy, calls, result, origin>>
     ELSE IF DocumentBlocks(Trim(sourceCode))
     THEN /\ Returns("validation", 0,
                     Toast("Invalid Input", <<"Please paste real code">>, TRUE),
                     result, origin, FALSE)
          /\ UNCHANGED <<busy, calls, result, origin>>
     ELSE IF ~optionsOk
     THEN /\ result' = <<>>
          /\ origin' = "none"
          /\ Returns("error", FetchesPerCall,
                     Toast("Error", <<"Cannot read properties of undefined">>, TRUE),
                     <<>>, "none", FALSE)
          /\ busy' = AfterFinally("error")
          /\ UNCHANGED calls
     ELSE /\ busy' = TRUE
          /\ result' = <<>>
          /\ origin' = "none"
          /\ calls' = Append(calls, Call("call", sourceCode, identifier, <<"unknown">>,
                                         2 * FetchesPerCall, NoUp, NoRet, FALSE, <<>>))
          /\ NothingEnds
  /\ UNCHANGED <<api, pure, tool, user, sourceCode, identifier, optionsOk, isWeb>>

\* the completion call of instance i settles; the sentinel check throws
\* inside the inner try, whose catch runs the fallback
DocumentResolve(i) ==
  /\ tool = "document"
  /\ calls[i].pc = "call"
  /\ \E net \in BOOLEAN, up \in Upstreams :
       LET ret == Complete(net, up)
           clean == CleanFenced(ret.text)
           useFallback == ~ret.ok \/ Includes(clean, Sentinel)
           text == IF useFallback THEN GenerateFallbackDocs(calls[i].id) ELSE clean
           from == IF useFallback THEN "fallback" ELSE "provider"
           c == [calls[i] EXCEPT !.up = Reached(net, up), !.ret = ret, !.fb = useFallback,
                                 !.out = text]
       IN /\ result' = text
          /\ origin' = from
          /\ IF user # "none"
             THEN /\ calls' = [calls EXCEPT ![i] = [c EXCEPT !.pc = "save"]]
                  /\ busy' = busy
                  /\ NothingEnds
             ELSE Ends(i, "done", c, Toast("Success!", <<"docs">>, FALSE), text, from)
  /\ UNCHANGED <<api, pure, tool, user, sourceCode, identifier, optionsOk, isWeb>>

DocumentSaved(i) ==
  /\ tool = "document"
  /\ calls[i].pc = "save"
  /\ \E ok \in BOOLEAN :
       Ends(i, "done",
            [calls[i] EXCEPT !.saved = IF ok THEN "ok" ELSE "failed",
                             !.rows = IF ok THEN <<Row(<<"docs", "docType">>, calls[i])>>
                                       ELSE <<>>],
            Toast("Success!", <<"docs">>, FALSE), result, origin)
  /\ UNCHANGED <<api, pure, tool, user, sourceCode, identifier, optionsOk, isWeb, result, origin>>

(***************************************************************************)
(* TestGenerator handleGenerate                                            *)
(***************************************************************************)
TestButtonEnabled == ~busy /\ Trim(sourceCode) # <<>>

\* the handler resets the identifier state and awaits detectLanguage, whose
\* default configuration asks the completion provider first
TestClick ==
  /\ tool = "test"
  /\ TestButtonEnabled
  /\ IF ~ValidateRequired(sourceCode)
     THEN /\ Returns("validation", 0,
                     Toast("Validation Error", <<"Source Code is required">>, TRUE),
                     result, origin, FALSE)
          /\ UNCHANGED <<busy, calls, result, origin, identifier>>
     ELSE /\ busy' = TRUE
          /\ result' = <<>>
          /\ origin' = "none"
          /\ identifier' = "unknown"
          /\ calls' = Append(calls, Call("detect", sourceCode, identifier, <<"unknown">>,
                                         FetchesPerCall, NoUp, NoRet, FALSE, <<>>))
          /\ NothingEnds
  /\ UNCHANGED <<api, pure, tool, user, sourceCode, optionsOk, isWeb>>

\* the language-detection request of instance i settles and the handler
\* sends the completion request
TestDetected(i) ==
  /\ tool = "test"
  /\ calls[i].pc = "detect"
  /\ \E net \in BOOLEAN, up \in Upstreams :
       calls' = [calls EXCEPT ![i] =
                   [calls[i] EXCEPT !.pc = "call", !.sent = @ + FetchesPerCall,
                                    !.lang = DetectLanguage(calls[i].src, Complete(net, up))]]
  /\ UNCHANGED <<api, pure, tool, user, sourceCode, identifier, optionsOk, isWeb, busy, result, origin>>
  /\ NothingEnds

\* the completion call of instance i settles
TestResolve(i) ==
  /\ tool = "test"
  /\ calls[i].pc = "call"
  /\ \E net \in BOOLEAN, up \in Upstreams :
       LET ret == Complete(net, up)
           useFallback == ~ret.ok
           text == IF useFallback
                   THEN GenerateFallbackTests(calls[i].lang, GetFramework(calls[i].lang),
                                              calls[i].id)
                   ELSE CleanFenced(ret.text)
           from == IF useFallback THEN "fallback" ELSE "provider"
           c == [calls[i] EXCEPT !.up = Reached(net, up), !.ret = ret, !.fb = useFallback,
                                 !.out = text]
       IN /\ result' = text
          /\ origin' = from
          /\ IF user # "none"
             THEN /\ calls' = [calls EXCEPT ![i] = [c EXCEPT !.pc = "save"]]
                  /\ busy' = busy
                  /\ NothingEnds
             ELSE Ends(i, "done", c, Toast("Tests Generated", <<"tests">>, FALSE), text, from)
  /\ UNCHANGED <<api, pure, tool, user, sourceCode, identifier, optionsOk, isWeb>>

TestSaved(i) ==
  /\ tool = "test"
  /\ calls[i].pc = "save"
  /\ \E ok \in BOOLEAN :
       Ends(i, "done",
            [calls[i] EXCEPT !.saved = IF ok THEN "ok" ELSE "failed",
                             !.rows = IF ok THEN <<Row(<<"test">> \o calls[i].lang, calls[i])>>
                                       ELSE <<>>],
            Toast("Tests Generated", <<"tests">>, FALSE), result, origin)
  /\ UNCHANGED <<api, pure, tool, user, sourceCode, identifier, optionsOk, isWeb, result, origin>>

(***************************************************************************)
(* SecurityAudit.tsx runAudit and the security-audit edge function         *)
(***************************************************************************)
\* what the model behind the edge function may answer
AuditUpstreams == {[kind |-> "nokey", text |-> <<>>]}
                    \cup {[kind |-> "text", text |-> t] : t \in ProviderTexts}

\* supabase/functions/security-audit/index.ts, as supabase.functions.invoke
\* reports it: an error for status 500, the auditReport otherwise
SecurityAuditFunction(net, g) ==
  IF ~net THEN Thrown(<<"Failed to send a request to the Edge Function">>)
  ELSE IF g.kind = "nokey" THEN Thrown(<<"GEMINI_API_KEY not configured">>)
  ELSE IF g.text = <<>> THEN Thrown(<<"No security audit generated">>)
  ELSE Returned(g.text)

\* generateReport: the status of each check is drawn with Math.random()
GenerateReport(issue) ==
  <<"# Security Audit Report", NL, IF issue THEN "Issues Found" ELSE "No Issues">>

AuditButtonEnabled == ~busy /\ Trim(sourceCode) # <<>>

AuditClick ==
  /\ tool = "audit"
  /\ AuditButtonEnabled
  /\ IF Trim(sourceCode) = <<>>
     THEN /\ Returns("validation", 0, Toast("Error", <<"Please paste your code">>, TRUE),
                     result, origin, FALSE)
          /\ UNCHANGED <<busy, calls, result, origin>>
     ELSE /\ busy' = TRUE
          /\ result' = <<>>
          /\ origin' = "none"
          /\ calls' = Append(calls, Call("call", sourceCode, identifier, <<"unknown">>, 1,
                                         NoUp, NoRet, FALSE, <<>>))
          /\ NothingEnds
  /\ UNCHANGED <<api, pure, tool, user, sourceCode, identifier, optionsOk, isWeb>>

AuditResolve(i) ==
  /\ tool = "audit"
  /\ calls[i].pc = "call"
  /\ \E net \in BOOLEAN, g \in AuditUpstreams, issue \in BOOLEAN :
       LET ret == SecurityAuditFunction(net, g)
           useFallback == ~ret.ok \/ ret.text = <<>>
           text == IF useFallback THEN GenerateReport(issue) ELSE ret.text
           from == IF useFallback THEN "fallback" ELSE "provider"
           c == [calls[i] EXCEPT !.ret = ret, !.fb = useFallback, !.out = text]
       IN /\ result' = text
          /\ origin' = from
          /\ Ends(i, "done", c,
                  IF ret.ok THEN NoToast
                  ELSE Toast("Success", <<"Local report generated">>, FALSE),
                  text, from)
  /\ UNCHANGED <<api, pure, tool, user, sourceCode, identifier, optionsOk, isWeb>>

(***************************************************************************)
(* AdvancedTools.tsx analyzeCode                                           *)
(***************************************************************************)
AnalyzeButtonEnabled == ~busy /\ Trim(sourceCode) # <<>>

\* detectLanguage(code).language starts the language-detection request and
\* does not await it.  The four analyses call GroqService.chatCompletion,
\* which GroqService does not define: the first call throws a TypeError
\* inside the try block, so the handler ends in its catch without suspending.
AnalyzeClick ==
  /\ tool = "analyze"
  /\ AnalyzeButtonEnabled
  /\ IF Trim(sourceCode) = <<>>
     THEN /\ Returns("validation", 0,
                     Toast("No Code to Analyze", <<"Please paste some code to analyze">>, TRUE),
                     result, origin, FALSE)
          /\ UNCHANGED <<busy, result, origin>>
     ELSE /\ result' = <<>>
          /\ origin' = "none"
          /\ Returns("error", FetchesPerCall,
                     Toast("Analysis Failed", <<"Unable to complete code analysis.">>, TRUE),
                     <<>>, "none", FALSE)
          /\ busy' = AfterFinally("error")
  /\ UNCHANGED <<api, pure, tool, user, sourceCode, identifier, optionsOk, isWeb, calls>>

(***************************************************************************)
(* CodeRunner.tsx: handleRun, runBrowser, runBackend                       *)
(***************************************************************************)
RunButtonEnabled == ~busy

\* runBrowser: rewrites the preview; sets running and clears it again
RunBrowser ==
  /\ result' = <<"Preview updated">>
  /\ origin' = "status"
  /\ busy' = FALSE
  /\ Returns("done", 0, NoToast, <<"Preview updated">>, "status", FALSE)
  /\ UNCHANGED calls

\* runBackend up to its await
RunBackend ==
  /\ busy' = TRUE
  /\ result' = <<"Running...">>
  /\ origin' = "status"
  /\ calls' = Append(calls, Call("call", sourceCode, identifier, <<"unknown">>, 1,
                                 NoUp, NoRet, FALSE, <<>>))
  /\ NothingEnds

HandleRun == IF isWeb THEN RunBrowser ELSE RunBackend

\* the RUN button
RunClick ==
  /\ tool = "run"
  /\ RunButtonEnabled
  /\ Len(calls) < MaxInflight
  /\ HandleRun
  /\ UNCHANGED <<api, pure, tool, user, sourceCode, identifier, optionsOk, isWeb>>

\* Ctrl+Enter or Cmd+Enter anywhere in the window
RunKey ==
  /\ tool = "run"
  /\ Len(calls) < MaxInflight
  /\ HandleRun
  /\ UNCHANGED <<api, pure, tool, user, sourceCode, identifier, optionsOk, isWeb>>

\* the "Restart preview" button and the debounced live preview
RestartPreview ==
  /\ tool = "run"
  /\ RunBrowser
  /\ UNCHANGED <<api, pure, tool, user, sourceCode, identifier, optionsOk, isWeb>>

\* the user makes a file of the other runtime the active file
SwitchFile ==
  /\ tool = "run"
  /\ isWeb' = ~isWeb
  /\ sourceCode' \in RunnerFiles
  /\ UNCHANGED <<api, pure, tool, user, identifier, optionsOk, busy, result, origin, calls>>
  /\ NothingEnds

\* what the awaited executeWithGroq of the runner may do
RunOutcomes == {Thrown(<<"Failed to fetch">>)} \cup {Returned(t) : t \in ProviderTexts}

\* the completion call of instance i settles
RunResolve(i) ==
  /\ tool = "run"
  /\ calls[i].pc = "call"
  /\ \E ret \in RunOutcomes :
       LET text == IF ~ret.ok THEN <<"Error:">> \o ret.text
                   ELSE IF Trim(ret.text) = <<>> THEN <<"No output">>
                   ELSE Trim(ret.text)
           from == IF ret.ok /\ Trim(ret.text) # <<>> THEN "provider" ELSE "status"
       IN /\ result' = text
          /\ origin' = from
          /\ Ends(i, IF ret.ok THEN "done" ELSE "error", [calls[i] EXCEPT !.ret = ret],
                  IF ret.ok THEN NoToast ELSE Toast("Run failed", ret.text, TRUE),
                  text, from)
  /\ UNCHANGED <<api, pure, tool, user, sourceCode, identifier, optionsOk, isWeb>>

\* the runner's explaining flag: set from the click to the finally of explain
RunnerExplaining == \E i \in 1..Len(calls) : calls[i].pc = "explain"

\* the runner's "Explain code" button: explain up to its await; it sends the
\* active file's content whatever it holds
RunnerExplainClick ==
  /\ tool = "run"
  /\ ~RunnerExplaining
  /\ Len(calls) < MaxInflight
  /\ result' = <<"Generating explanation">>
  /\ origin' = "status"
  /\ calls' = Append(calls, Call("explain", sourceCode, identifier, <<"unknown">>,
                                 FetchesPerCall, NoUp, NoRet, FALSE, <<>>))
  /\ NothingEnds
  /\ UNCHANGED <<api, pure, tool, user, sourceCode, identifier, optionsOk, isWeb, busy>>

\* the completion call of the runner's explain settles
RunnerExplainResolve(i) ==
  /\ tool = "run"
  /\ calls[i].pc = "explain"
  /\ \E net \in BOOLEAN, up \in Upstreams :
       LET ret == Complete(net, up)
           c == [calls[i] EXCEPT !.up = Reached(net, up), !.ret = ret]
           text == IF ret.ok THEN <<"Explanation:", NL, NL>> \o ret.text
                   ELSE <<"Failed to explain code.">>
           from == IF ret.ok THEN "provider" ELSE "status"
           toast == IF ret.ok THEN NoToast ELSE Toast("Explain failed", <<>>, TRUE)
       IN /\ result' = text
          /\ origin' = from
          /\ last' = Finished(IF ret.ok THEN "done" ELSE "error", c, toast, text, from)
          /\ failureToast' = IF ret.ok THEN failureToast ELSE toast
          /\ calls' = RemoveAt(calls, i)
  /\ UNCHANGED <<api, pure, tool, user, sourceCode, identifier, optionsOk, isWeb, busy>>

(***************************************************************************)
(* CodeGeneration.tsx: handleGenerate, generateIntelligentCode,            *)
(* saveToHistory.  sourceCode is the prompt (state.prompt); the options    *)
(* keep their initial values (javascript, function).                       *)
(***************************************************************************)
\* .replace(/^'''[\w]*\n?([\s\S]*?)\n?'''$/g, "$1").trim(): without the m flag
\* the pattern matches a text that starts and ends with a fence; the body
\* is taken lazily, so one line break before the closing fence is dropped
UnwrapWhole(s) ==
  LET body == DropOneNL(DropWords(Tail(s)))
      inner == SubSeq(body, 1, Len(body) - 1)
  IN IF Len(s) >= 2 /\ Head(s) = Fence /\ s[Len(s)] = Fence /\ body # <<>>
     THEN IF inner # <<>> /\ inner[Len(inner)] = NL
          THEN SubSeq(inner, 1, Len(inner) - 1)
          ELSE inner
     ELSE s

CleanGenerated(s) == Trim(UnwrapWhole(s))

\* generateSmartCode for the code type "function": the last entry of the map
GenerateSmartCode(description, language) ==
  <<Slashes, SP, language, SP>> \o description \o <<NL, "console.log(fallback);">>

GenerateButtonEnabled == ~busy /\ Trim(sourceCode) # <<>>

GenerateClick ==
  /\ tool = "generate"
  /\ GenerateButtonEnabled
  /\ IF Trim(sourceCode) = <<>>
     THEN /\ Returns("validation", 0,
                     Toast("Missing prompt", <<"Please describe the code you need.">>, FALSE),
                     result, origin, FALSE)
          /\ UNCHANGED <<busy, calls>>
     ELSE /\ busy' = TRUE
          /\ calls' = Append(calls, Call("call", sourceCode, identifier, <<"javascript">>,
                                         FetchesPerCall, NoUp, NoRet, FALSE, <<>>))
          /\ NothingEnds
  /\ UNCHANGED <<api, pure, tool, user, sourceCode, identifier, optionsOk, isWeb, result, origin>>

\* the completion call of instance i settles; generateIntelligentCode returns
\* the cleaned code or the template, then saveToHistory writes localStorage
\* (which throws when the quota is exceeded or the stored history is not
\* JSON) before the code is put into the state
GenerateResolve(i) ==
  /\ tool = "generate"
  /\ calls[i].pc = "call"
  /\ \E net \in BOOLEAN, up \in Upstreams, saveOk \in BOOLEAN :
       LET ret == Complete(net, up)
           generated == GroqMethod("code-generation", ret)
           useFallback == ~generated.ok
           code == IF useFallback THEN GenerateSmartCode(calls[i].src, "javascript")
                   ELSE CleanGenerated(generated.text)
           from == IF useFallback THEN "fallback" ELSE "provider"
           c == [calls[i] EXCEPT !.up = Reached(net, up), !.ret = ret, !.fb = useFallback,
                                 !.out = code,
                                 !.saved = IF saveOk THEN "ok" ELSE "failed"]
       IN IF saveOk
          THEN /\ result' = code
               /\ origin' = from
               /\ Ends(i, "done", c, Toast("Success", <<"Code generated!">>, FALSE),
                       code, from)
          ELSE /\ UNCHANGED <<result, origin>>
               /\ Ends(i, "error", c, Toast("Error", <<"QuotaExceededError">>, TRUE),
                       result, origin)
  /\ UNCHANGED <<api, pure, tool, user, sourceCode, identifier, optionsOk, isWeb>>

Next ==
  \/ Edit
  \/ SelectOptions
  \/ ExplainClick
  \/ \E i \in 1..Len(calls) : ExplainResolve(i)
  \/ \E i \in 1..Len(calls) : ExplainSaved(i)
  \/ DocumentClick
  \/ \E i \in 1..Len(calls) : DocumentResolve(i)
  \/ \E i \in 1..Len(calls) : DocumentSaved(i)
  \/ TestClick
  \/ \E i \in 1..Len(calls) : TestDetected(i)
  \/ \E i \in 1..Len(calls) : TestResolve(i)
  \/ \E i \in 1..Len(calls) : TestSaved(i)
  \/ AuditClick
  \/ \E i \in 1..Len(calls) : AuditResolve(i)
  \/ AnalyzeClick
  \/ RunClick
  \/ RunKey
  \/ RestartPreview
  \/ SwitchFile
  \/ \E i \in 1..Len(calls) : RunResolve(i)
  \/ RunnerExplainClick
  \/ \E i \in 1..Len(calls) : RunnerExplainResolve(i)
  \/ GenerateClick
  \/ \E i \in 1..Len(calls) : GenerateResolve(i)

Spec == Init /\ [][Next]_vars


(***************************************************************************)
(* GroqService helpers, AIApiCaller and ApiResponseHandler.                *)
(***************************************************************************)
\* a StandardizedOutput, with the place its content was taken from
Output(content, isPlaceholder, from) ==
  [content |-> content, isPlaceholder |-> isPlaceholder, from |-> from]

\* AIApiCaller.callAIFunction
CallAIFunctionResult(handlerType, fallbackContent, ret) ==
  LET r == GroqMethod(handlerType, ret)
  IN IF r.ok THEN <<Output(r.text, FALSE, "provider")>>
     ELSE <<Output(<<"Error:">> \o r.text \o <<NL, NL>> \o fallbackContent, TRUE,
                   "fallback")>>

\* AIApiCaller.callCodeOptimization: the optimized code and the analysis
\* report
CallCodeOptimizationResult(fallbackCode, fallbackAnalysis, ret) ==
  IF ret.ok
  THEN <<Output(ret.text, FALSE, "provider"),
         Output(<<"Code optimization analysis is included in the optimized code comments.">>,
                FALSE, "constant")>>
  ELSE <<Output(fallbackCode, TRUE, "fallback"), Output(fallbackAnalysis, TRUE, "fallback")>>

\* the responses handed to ApiResponseHandler: null, a response without
\* data, or a response whose data holds the given fields
NullResponse == [kind |-> "null", data |-> NoFields]
NoDataResponse == [kind |-> "nodata", data |-> NoFields]
DataResponse(fields) == [kind |-> "data", data |-> fields]

\* a || chain over the fields of data: the first one that is not empty
RECURSIVE FirstTruthy(_, _)
FirstTruthy(data, names) ==
  IF names = <<>> THEN <<>>
  ELSE IF Has(data, Head(names)) /\ data[Head(names)] # <<>> THEN data[Head(names)]
  ELSE FirstTruthy(data, Tail(names))

TestFields == <<"generatedTests", "tests", "test_code", "result", "output", "content">>

\* ApiResponseHandler.handleTestGeneration
HandleTestGenerationResult(response, fallbackContent) ==
  IF response.kind # "data" THEN <<Output(fallbackContent, TRUE, "fallback")>>
  ELSE LET found == FirstTruthy(response.data, TestFields)
           content == IF found # <<>> THEN found ELSE fallbackContent
       IN <<Output(content, content = fallbackContent,
                   IF found # <<>> THEN "provider" ELSE "fallback")>>

\* the first field whose value is a string with something besides white space
RECURSIVE FirstNonBlank(_, _)
FirstNonBlank(data, names) ==
  IF names = <<>> THEN <<>>
  ELSE IF Has(data, Head(names)) /\ Trim(data[Head(names)]) # <<>> THEN data[Head(names)]
  ELSE FirstNonBlank(data, Tail(names))

CodeFields == <<"generatedCode", "code", "result", "output", "content">>

\* ApiResponseHandler.handleCodeGeneration with extractContent
HandleCodeGenerationResult(response, fallbackContent) ==
  IF response.kind # "data" THEN <<Output(fallbackContent, TRUE, "fallback")>>
  ELSE LET found == FirstNonBlank(response.data, CodeFields)
           content == IF found # <<>> THEN found ELSE fallbackContent
       IN <<Output(content, content = fallbackContent,
                   IF found # <<>> THEN "provider" ELSE "fallback")>>

\* fallback contents the callers pass
FallbackContents == {<<"# Analysis", NL, "offline template">>, <<"x">>}

ApiResponses ==
  {NullResponse, NoDataResponse, DataResponse(NoFields)}
    \cup {DataResponse(Field("generatedTests", t)) : t \in ProviderTexts}
    \cup {DataResponse(Field("generatedCode", t)) : t \in ProviderTexts}
    \cup {DataResponse(Field("content", t)) : t \in ProviderTexts \cup {<<SP>>}}

\* the library is exercised on its own, with no page action running
InitApi ==
  /\ Init
  /\ tool = "explain"
  /\ user = "none"
  /\ sourceCode = <<>>

CallAIFunction ==
  /\ \E h \in HandlerTypes, fb \in FallbackContents, net \in BOOLEAN, up \in Upstreams :
       api' = [fn |-> "callAIFunction", handlerType |-> h, fallback |-> fb,
               outputs |-> CallAIFunctionResult(h, fb, Complete(net, up))]
  /\ UNCHANGED <<pageVars, pure>>

CallCodeOptimization ==
  /\ \E fc \in FallbackContents, fa \in FallbackContents, net \in BOOLEAN, up \in Upstreams :
       api' = [fn |-> "callCodeOptimization", handlerType |-> "code-optimization",
               fallback |-> fc,
               outputs |-> CallCodeOptimizationResult(fc, fa, Complete(net, up))]
  /\ UNCHANGED <<pageVars, pure>>

HandleTestGeneration ==
  /\ \E response \in ApiResponses, fb \in FallbackContents :
       api' = [fn |-> "handleTestGeneration", handlerType |-> "test-generation",
               fallback |-> fb, outputs |-> HandleTestGenerationResult(response, fb)]
  /\ UNCHANGED <<pageVars, pure>>

HandleCodeGeneration ==
  /\ \E response \in ApiResponses, fb \in FallbackContents :
       api' = [fn |-> "handleCodeGeneration", handlerType |-> "code-generation",
               fallback |-> fb, outputs |-> HandleCodeGenerationResult(response, fb)]
  /\ UNCHANGED <<pageVars, pure>>

NextApi ==
  \/ CallAIFunction
  \/ CallCodeOptimization
  \/ HandleTestGeneration
  \/ HandleCodeGeneration

SpecApi == InitApi /\ [][NextApi]_vars

(***************************************************************************)
(* Response normalisation on its own: each page's clean-up chain applied   *)
(* to a raw completion text, and applied again to its own output.          *)
(***************************************************************************)
MaxLines == 4
MaxApplications == 2

\* raw texts of up to MaxLines lines, each line empty, a blank, a word, or a
\* fence marker
Texts ==
  {JoinLines(ls) :
     ls \in UNION {[1..n -> {<<>>, <<SP>>, <<"x">>, <<Fence>>}] : n \in 1..MaxLines}}

\* the clean-up chain of each page; the generation page receives its text
\* from GroqService.generateCode, which has cleaned it once already
Normalize(t, s) ==
  CASE t = "explain" -> CleanExplain(s)
    [] t = "generate" -> CleanGenerated(CleanCodeResponse(s))
    [] OTHER -> CleanFenced(s)

\* a completion text that wraps x in an opening fence line and a closing fence
Fenced(tag, x) == <<Fence>> \o tag \o <<NL>> \o x \o <<NL, Fence>>

InitNorm ==
  /\ InitPages
  /\ tool = "explain"
  /\ user = "none"
  /\ sourceCode = <<>>
  /\ api = NoApi
  /\ \E t \in {"explain", "document", "test", "generate"}, x \in Texts :
       pure = [fn |-> "normalize", tool |-> t, inner |-> x, fenced |-> FALSE,
               raw |-> x, outs |-> <<>>]

\* the provider answers with the text wrapped in code fences
WrapInFences ==
  /\ pure.fn = "normalize"
  /\ ~pure.fenced
  /\ pure.outs = <<>>
  /\ \E tag \in {<<>>, <<"js">>} :
       pure' = [pure EXCEPT !.fenced = TRUE, !.raw = Fenced(tag, pure.inner)]
  /\ UNCHANGED <<pageVars, api>>

\* the page's clean-up chain runs: on the raw text first, then on its own
\* output
ApplyNormalize ==
  /\ pure.fn = "normalize"
  /\ Len(pure.outs) < MaxApplications
  /\ pure' = [pure EXCEPT !.outs =
                Append(@, Normalize(pure.tool,
                                    IF @ = <<>> THEN pure.raw ELSE @[Len(@)]))]
  /\ UNCHANGED <<pageVars, api>>

SpecNorm == InitNorm /\ [][WrapInFences \/ ApplyNormalize]_vars

(***************************************************************************)
(* codeAnalysis detectLanguage on its own: called repeatedly on one text,  *)
(* each call asking the completion provider first.                         *)
(***************************************************************************)
MaxDetections == 2

\* Math.min(100, Math.round((score / (code.length * 0.01)) * 100))
PatternConfidence(code) ==
  LET rounded == (2 * PatternScore(code) * 10000 + CharLen(code)) \div (2 * CharLen(code))
  IN IF rounded > 100 THEN 100 ELSE rounded

\* the { language, confidence } pair detectLanguage returns
DetectionResult(code, ret) ==
  [language |-> DetectLanguage(code, ret),
   confidence |-> IF Trim(code) = <<>> THEN 0
                  ELSE IF AiDetectLanguage(ret) # <<>> /\ AiDetectLanguage(ret) # <<"unknown">>
                  THEN 90
                  ELSE PatternConfidence(code)]

InitDetect ==
  /\ InitPages
  /\ tool = "explain"
  /\ user = "none"
  /\ sourceCode = <<>>
  /\ api = NoApi
  /\ \E code \in Sources : pure = [fn |-> "detectLanguage", code |-> code, results |-> <<>>]

\* one call of detectLanguage on the text; the provider answers as it likes
DetectCall ==
  /\ pure.fn = "detectLanguage"
  /\ Len(pure.results) < MaxDetections
  /\ \E net \in BOOLEAN, up \in Upstreams :
       pure' = [pure EXCEPT !.results =
                  Append(@, [answer |-> Reached(net, up),
                             returned |-> DetectionResult(pure.code, Complete(net, up))])]
  /\ UNCHANGED <<pageVars, api>>

SpecDetect == InitDetect /\ [][DetectCall]_vars

(***************************************************************************)
(* The fallback synthesizers on their own: each page's placeholder built   *)
(* repeatedly for one request.                                             *)
(***************************************************************************)
MaxSyntheses == 2

\* the artifacts the page's synthesizer may build for a request; the audit
\* page's generateReport draws each check's status with Math.random()
FallbackArtifacts(mode, src, lang) ==
  CASE mode = "explain" -> {ExplainFallback(src)}
    [] mode = "document" -> {GenerateFallbackDocs(DocIdentifier(src))}
    [] mode = "test" ->
         {GenerateFallbackTests(lang, GetFramework(lang), ExtractIdentifier(src))}
    [] mode = "audit" -> {GenerateReport(issue) : issue \in BOOLEAN}
    [] mode = "generate" -> {GenerateSmartCode(src, lang[1])}

InitFallback ==
  /\ InitPages
  /\ tool = "explain"
  /\ user = "none"
  /\ sourceCode = <<>>
  /\ api = NoApi
  /\ \E mode \in {"explain", "document", "test", "audit", "generate"},
        src \in Sources \ {<<>>}, lang \in {<<"javascript">>, <<"unknown">>} :
       pure = [fn |-> "fallback", mode |-> mode, src |-> src, lang |-> lang,
               artifacts |-> <<>>]

\* the page's synthesizer builds the placeholder for the request once more
Synthesize ==
  /\ pure.fn = "fallback"
  /\ Len(pure.artifacts) < MaxSyntheses
  /\ \E a \in FallbackArtifacts(pure.mode, pure.src, pure.lang) :
       pure' = [pure EXCEPT !.artifacts = Append(@, a)]
  /\ UNCHANGED <<pageVars, api>>

SpecFallback == InitFallback /\ [][Synthesize]_vars

(***************************************************************************)
(* The auth provider on its own: initAuth with its safety timeout, the     *)
(* auth state listener, the profile fetches it awaits, and signOut.        *)
(***************************************************************************)
MaxPending == 2

\* a mutant of AfterTimeout: the safety timeout leaves isLoading set
LoadingKeptOnTimeout == TRUE

\* isLoading after the safety timeout fired on a mounted provider
AfterTimeout == FALSE

\* the provider mounts: state from useState, initAuth has armed the timer and
\* awaits supabase.auth.getSession()
InitAuth ==
  /\ InitPages
  /\ tool = "explain"
  /\ user = "none"
  /\ sourceCode = <<>>
  /\ api = NoApi
  /\ pure = [fn |-> "AuthProvider", user |-> "none", profile |-> "none",
             session |-> "none", isLoading |-> TRUE, mounted |-> TRUE,
             timer |-> "armed", init |-> "getSession", subscribed |-> FALSE,
             pending |-> <<>>, signOut |-> "idle"]

\* getSession settles: with an error (or a throw), or with the stored
\* session, which may hold a user; initAuth runs on to its next await or to
\* its end, where its finally clears the timer
GetSessionReturns ==
  /\ pure.fn = "AuthProvider"
  /\ pure.init = "getSession"
  /\ \E s \in {"error", "none", "u1", "u2"} :
       pure' =
         IF ~pure.mounted THEN [pure EXCEPT !.init = "done"]
         ELSE IF s = "error"
         THEN [pure EXCEPT !.session = "none", !.user = "none", !.profile = "none",
                           !.isLoading = FALSE, !.init = "done",
                           !.timer = IF @ = "armed" THEN "cleared" ELSE @]
         ELSE IF s = "none"
         THEN [pure EXCEPT !.subscribed = TRUE, !.session = "none", !.user = "none",
                           !.profile = "none", !.isLoading = FALSE, !.init = "done",
                           !.timer = IF @ = "armed" THEN "cleared" ELSE @]
         ELSE [pure EXCEPT !.subscribed = TRUE, !.session = s, !.user = s,
                           !.init = "handling",
                           !.pending = Append(@, [userId |-> s, init |-> TRUE])]
  /\ UNCHANGED <<pageVars, api>>

\* supabase reports an auth state change to the listener:
\* handleAuthStateChange up to its await of fetchUserProfile, or to its end
\* when the session holds no user
AuthEvent ==
  /\ pure.fn = "AuthProvider"
  /\ pure.subscribed
  /\ pure.mounted
  /\ \E s \in {"none", "u1", "u2"} :
       /\ s # "none" => Len(pure.pending) < MaxPending
       /\ pure' =
            IF s = "none"
            THEN [pure EXCEPT !.session = "none", !.user = "none", !.profile = "none",
                              !.isLoading = FALSE]
            ELSE [pure EXCEPT !.session = s, !.user = s,
                              !.pending = Append(@, [userId |-> s, init |-> FALSE])]
  /\ UNCHANGED <<pageVars, api>>

\* the profile query of pending handler i settles: fetchUserProfile stores the
\* row or a mock profile for the user id it was called with, or stores
\* nothing on any other error; the handler's finally clears isLoading, and
\* initAuth, when it was the caller, ends and clears the timer
ProfileFetchSettles(i) ==
  /\ pure.fn = "AuthProvider"
  /\ \E stored \in BOOLEAN :
       pure' = [pure EXCEPT
                  !.profile = IF stored THEN pure.pending[i].userId ELSE @,
                  !.isLoading = IF pure.mounted THEN FALSE ELSE @,
                  !.init = IF pure.pending[i].init THEN "done" ELSE @,
                  !.timer = IF pure.pending[i].init /\ pure.mounted /\ @ = "armed"
                            THEN "cleared" ELSE @,
                  !.pending = RemoveAt(@, i)]
  /\ UNCHANGED <<pageVars, api>>

\* the 3 second safety timeout of initAuth fires
TimerFires ==
  /\ pure.fn = "AuthProvider"
  /\ pure.timer = "armed"
  /\ pure' = [pure EXCEPT !.timer = "fired",
                          !.isLoading = IF pure.mounted THEN AfterTimeout ELSE @]
  /\ UNCHANGED <<pageVars, api>>

\* the effect's cleanup: the provider unmounts
Unmount ==
  /\ pure.fn = "AuthProvider"
  /\ pure.mounted
  /\ pure' = [pure EXCEPT !.mounted = FALSE, !.subscribed = FALSE,
                          !.timer = IF @ = "armed" THEN "cleared" ELSE @]
  /\ UNCHANGED <<pageVars, api>>

\* signOut is called and awaits supabase.auth.signOut()
SignOutCall ==
  /\ pure.fn = "AuthProvider"
  /\ pure.mounted
  /\ pure.signOut # "calling"
  /\ pure' = [pure EXCEPT !.signOut = "calling"]
  /\ UNCHANGED <<pageVars, api>>

\* the remote sign-out settles and signOut returns: on success the local
\* state is reset and the window navigates to /auth, which ends the page; on
\* a returned error the state is reset and the error is thrown to the catch;
\* when the call throws, the catch is entered before the reset
SignOutSettles ==
  /\ pure.fn = "AuthProvider"
  /\ pure.signOut = "calling"
  /\ \E outcome \in {"ok", "error", "threw"} :
       pure' =
         IF outcome = "ok"
         THEN [pure EXCEPT !.user = "none", !.profile = "none", !.session = "none",
                           !.signOut = outcome, !.mounted = FALSE,
                           !.subscribed = FALSE, !.pending = <<>>, !.init = "done",
                           !.timer = IF @ = "armed" THEN "cleared" ELSE @]
         ELSE IF outcome = "error"
         THEN [pure EXCEPT !.user = "none", !.profile = "none", !.session = "none",
                           !.signOut = outcome]
         ELSE [pure EXCEPT !.signOut = outcome]
  /\ UNCHANGED <<pageVars, api>>

\* the timer is the only step the scheduler is bound to take
SpecAuth ==
  /\ InitAuth
  /\ [][GetSessionReturns
        \/ AuthEvent
        \/ \E i \in 1..Len(pure.pending) : ProfileFetchSettles(i)
        \/ TimerFires
        \/ Unmount
        \/ SignOutCall
        \/ SignOutSettles]_vars
  /\ WF_vars(TimerFires)


(***************************************************************************)
(* The HTTP client on its own (lib/apiClient.ts).  pure.calls holds one    *)
(* record per secureApi call: the rateLimit timer, the position of the     *)
(* request in the interceptor chain, the _retry flag of its config, the    *)
(* numbers of sends and of token refreshes, the status of the answer to    *)
(* the last send (0: none yet), the state of the promise of apiClient (request) and of the   *)
(* promise handed to the caller (outer).                                   *)
(* The interceptors take getAccessToken, refreshToken and logout from      *)
(* useAuth(); the hook is called outside any component and the provider    *)
(* defines none of the three, so each use either throws or, with a         *)
(* provider that has them, returns.                                        *)
(***************************************************************************)
MaxCalls == 2
MaxSends == 3

\* a mutant of RetryMarked: the handler forgets to mark the request
RetryNotMarked == FALSE

\* originalRequest._retry after the 401 branch was entered
RetryMarked == TRUE

InitClient ==
  /\ InitPages
  /\ tool = "explain"
  /\ user = "none"
  /\ sourceCode = <<>>
  /\ api = NoApi
  /\ pure = [fn |-> "secureApi", calls |-> <<>>, location |-> "app"]

\* the promise of apiClient rejects; rateLimit passed only resolve to then
Rejected(c) == [c EXCEPT !.phase = "done", !.request = "rejected"]

\* secureApi.get / post / put / delete / patch, which differ only in the
\* method of apiClient they call: the request starts at once, rateLimit
\* arms a timer of 0 ms
SecureApiCall ==
  /\ pure.fn = "secureApi"
  /\ Len(pure.calls) < MaxCalls
  /\ pure' = [pure EXCEPT !.calls = Append(@,
                [timer |-> "armed", phase |-> "interceptRequest",
                 retry |-> FALSE, sends |-> 0, refreshes |-> 0, answer |-> 0,
                 request |-> "pending", outer |-> "pending"])]
  /\ UNCHANGED <<pageVars, api>>

\* the timer of rateLimit fires: promise.then(resolve)
RateLimitTimer(i) ==
  /\ pure.fn = "secureApi"
  /\ pure.calls[i].timer = "armed"
  /\ pure' = [pure EXCEPT !.calls[i].timer = "fired",
                          !.calls[i].outer =
                             IF pure.calls[i].request = "fulfilled" THEN "resolved" ELSE @]
  /\ UNCHANGED <<pageVars, api>>

\* the request interceptors: a throw of the hook or of getAccessToken
\* rejects the request, which passes the response error handler without a
\* response; otherwise the request is sent
RequestInterceptor(i) ==
  /\ pure.fn = "secureApi"
  /\ pure.calls[i].phase = "interceptRequest"
  /\ \E hook \in {"returns", "throws"} :
       IF hook = "throws"
         THEN pure' = [pure EXCEPT !.calls[i] = Rejected(@)]
         ELSE /\ pure.calls[i].sends < MaxSends
              /\ pure' = [pure EXCEPT !.calls[i].phase = "sent",
                                      !.calls[i].answer = 0,
                                      !.calls[i].sends = @ + 1]
  /\ UNCHANGED <<pageVars, api>>

\* the answer of the server passes the response interceptors
Response(i) ==
  /\ pure.fn = "secureApi"
  /\ pure.calls[i].phase = "sent"
  /\ \E status \in {200, 401, 403, 500}, hook \in {"returns", "throws"} :
       LET c == [pure.calls[i] EXCEPT !.answer = status] IN
       CASE status = 200 ->
              \* the promise of apiClient resolves; the then of rateLimit,
              \* once attached, resolves the promise of the caller
              pure' = [pure EXCEPT !.calls[i] =
                         [c EXCEPT !.phase = "done", !.request = "fulfilled",
                                   !.outer = IF c.timer = "fired" THEN "resolved" ELSE @]]
         [] status = 401 /\ ~c.retry ->
              IF hook = "throws"
                THEN \* useAuth throws in the try, and again in the catch
                     pure' = [pure EXCEPT !.calls[i] = Rejected([c EXCEPT !.retry = RetryMarked])]
                ELSE pure' = [pure EXCEPT !.calls[i] =
                                [c EXCEPT !.retry = RetryMarked,
                                          !.phase = "refreshing",
                                          !.refreshes = @ + 1]]
         [] status = 401 /\ c.retry ->
              pure' = [pure EXCEPT !.calls[i] = Rejected(c)]
         [] status = 403 ->
              pure' = [pure EXCEPT !.calls[i] = Rejected(c), !.location = "/unauthorized"]
         [] OTHER ->
              pure' = [pure EXCEPT !.calls[i] = Rejected(c)]
  /\ UNCHANGED <<pageVars, api>>

\* refreshToken settles: the request is sent again through apiClient, or
\* the catch logs out, redirects to /login and rejects
RefreshSettles(i) ==
  /\ pure.fn = "secureApi"
  /\ pure.calls[i].phase = "refreshing"
  /\ \E outcome \in {"refreshed", "loggedOut", "logoutThrew"} :
       CASE outcome = "refreshed" ->
              pure' = [pure EXCEPT !.calls[i].phase = "interceptRequest"]
         [] outcome = "loggedOut" ->
              pure' = [pure EXCEPT !.calls[i] = Rejected(@), !.location = "/login"]
         [] OTHER ->
              pure' = [pure EXCEPT !.calls[i] = Rejected(@)]
  /\ UNCHANGED <<pageVars, api>>

NextClient ==
  \/ SecureApiCall
  \/ \E i \in 1..Len(pure.calls) : RateLimitTimer(i)
  \/ \E i \in 1..Len(pure.calls) : RequestInterceptor(i)
  \/ \E i \in 1..Len(pure.calls) : Response(i)
  \/ \E i \in 1..Len(pure.calls) : RefreshSettles(i)

\* timers fire and, with the 30 s timeout of the client, requests settle
SpecClient == InitClient /\ [][NextClient]_vars /\ WF_vars(NextClient)


(***************************************************************************)
(* The files of the code runner on their own (pages/CodeRunner.tsx).  A    *)
(* file name is a sequence of tokens; pure.files holds id, name and langId *)
(* of each file (the content of a new file is the default code of its      *)
(* language), pure.clock the value of Date.now(), pure.toast the title of  *)
(* the last toast.                                                         *)
(***************************************************************************)
MaxAdds == 3

\* addFile: the name typed in the dialog and the language selected there
AddFile ==
  /\ pure.fn = "files"
  /\ pure.clock < 3 + MaxAdds
  /\ \E newFileName \in {<<>>, <<SP>>, <<"script">>, <<"script", ".", "js">>,
                         <<SP, "main">>, <<"index", ".", "html">>},
        selectedLangId \in {"html", "javascript", "python"}, now \in {pure.clock + 1} :
       LET name == Trim(newFileName)
           ext == CASE selectedLangId = "html" -> "html"
                    [] selectedLangId = "javascript" -> "js"
                    [] OTHER -> "py"
           endsWithExt == Len(name) >= 2 /\ SubSeq(name, Len(name) - 1, Len(name)) = <<".", ext>>
           fullName == IF endsWithExt THEN name ELSE name \o <<".", ext>>
       IN  CASE name = <<>> ->
                  pure' = [pure EXCEPT !.toast = "File name required"]
             [] name # <<>> /\ \E k \in 1..Len(pure.files) : pure.files[k].name = name ->
                  pure' = [pure EXCEPT !.toast = "File exists"]
             [] OTHER ->
                  pure' = [pure EXCEPT
                             !.files = Append(@, [id |-> now, name |-> fullName,
                                                  langId |-> selectedLangId]),
                             !.activeId = now,
                             !.clock = now,
                             !.toast = "File created"]
  /\ UNCHANGED <<pageVars, api>>

\* deleteFile: the X of a tab or the Delete entry of the mobile menu
DeleteFile(k) ==
  /\ pure.fn = "files"
  /\ LET id == pure.files[k].id
         filtered == RemoveAt(pure.files, k)
     IN  pure' = [pure EXCEPT
                    !.files = filtered,
                    !.activeId = IF pure.activeId = id /\ filtered # <<>>
                                   THEN filtered[1].id ELSE @,
                    !.toast = "File deleted"]
  /\ UNCHANGED <<pageVars, api>>

\* the page starts with defaultFiles, the first of them active
InitFiles ==
  /\ InitPages
  /\ tool = "explain"
  /\ user = "none"
  /\ sourceCode = <<>>
  /\ api = NoApi
  /\ pure = [fn |-> "files",
             files |-> << [id |-> 1, name |-> <<"index", ".", "html">>, langId |-> "html"],
                          [id |-> 2, name |-> <<"style", ".", "css">>, langId |-> "css"],
                          [id |-> 3, name |-> <<"script", ".", "js">>, langId |-> "javascript"] >>,
             activeId |-> 1, clock |-> 3, toast |-> "none"]

SpecFiles ==
  /\ InitFiles
  /\ [][AddFile \/ \E k \in 1..Len(pure.files) : DeleteFile(k)]_vars


(***************************************************************************)
(* Properties.  A handler instance that ended in the last step is          *)
(* described by last; last.outcome is "none" when no instance ended.       *)
(***************************************************************************)
\* the source text is markup-like: it holds className=, <div or return (
MarkupLike(s) == \E t \in Range(s) : t \in {"className=", "<div", "return ("}

\* the pages that send the source text to a completion provider as a prompt
PromptTools == {"explain", "document", "test", "audit", "analyze"}

\* the completion call of the instance that ended was made and failed
CallFailed == last.outcome # "none" /\ last.ret # NoRet /\ ~last.ret.ok

\* the completion call of the instance that ended returned the sentinel
SentinelReply ==
  last.outcome # "none" /\ last.ret # NoRet /\ last.ret.ok /\ Includes(last.ret.text, Sentinel)

\* C1: in every tool mode (explain, document, test, audit, analyze) an
\* invocation on markup-like source text ends in a validation failure and has
\* sent no request.
C1_MarkupRejectedBeforeAnyCall ==
  (last.outcome # "none" /\ tool \in PromptTools /\ MarkupLike(last.src))
    => (last.outcome = "validation" /\ last.sent = 0)

\* C2: whenever no handler instance is suspended any more, the busy flag is
\* false: every way a handler ends (provider success, provider failure,
\* sentinel rejection, an exception before the call, a failed history write)
\* clears the flag it set.
C2_BusyClearedWhenFinished == (calls = <<>>) => (busy = FALSE)

\* a handler that had set the flag and sent its request ended on a failure
\* path or on a sentinel rejection, and the flag is clear
C2_Witness ==
  /\ calls = <<>>
  /\ busy = FALSE
  /\ last.outcome \in {"error", "rejected"}
  /\ last.sent > 0
  /\ last.ret # NoRet

\* C3: in every tool, an invocation whose completion call failed has run the
\* fallback synthesizer and ends displaying the placeholder with a soft
\* warning, not with a destructive error toast.
C3_FailureRunsFallback ==
  CallFailed => (/\ last.fallbackRan
                 /\ last.shownFrom = "fallback"
                 /\ last.shown # <<>>
                 /\ ~last.toast.destructive)

\* C4: on the pages whose prompt defines the sentinel, a reply that holds
\* "ERROR: JSX" ends the invocation as a rejection; the fallback synthesizer
\* is not run and no placeholder is displayed or persisted.
C4_SentinelIsRejectedWithoutFallback ==
  (SentinelReply /\ tool \in {"explain", "document"})
    => (/\ last.outcome = "rejected"
        /\ ~last.fallbackRan
        /\ last.shownFrom # "fallback"
        /\ last.rows = <<>>)

RequestsOfAction ==
  CASE tool = "test" -> 2
    [] tool = "document" -> IF last.ret = NoRet THEN 1 ELSE 2
    [] tool = "run" -> IF last.ret = NoRet THEN 0 ELSE 1
    [] OTHER -> 1

C6_AtMostOneInFlight == Len(calls) <= 1

\* the content of output o came from the fallback synthesizer exactly when
\* o.isPlaceholder, and from the provider's response exactly when not
PlaceholderIffFallback(o) ==
  /\ o.isPlaceholder <=> (o.from = "fallback")
  /\ (~o.isPlaceholder) <=> (o.from = "provider")

\* C7: in every result of the API caller and of the response handlers,
\* isPlaceholder is true exactly when the content came from the fallback
\* synthesizer and false exactly when it came from the provider's response.
C7_PlaceholderIffFallback ==
  \A i \in 1..Len(api.outputs) : PlaceholderIffFallback(api.outputs[i])

\* the upstream provider answered 200 with a JSON body
UpstreamSucceeded == last.up.kind = "http" /\ HttpOk(last.up.status) /\ last.up.json

\* C8: when the upstream provider answered the completion request with top
\* completion text T, the completion client returned exactly T to the tool.
C8_ClientReturnsTopText ==
  (last.outcome # "none" /\ UpstreamSucceeded /\ Has(last.up.fields, "choices"))
    => last.ret = Returned(last.up.fields["choices"])

\* the provider's successful answer holds a text field that is not empty
UsableText(fields) == \E f \in DOMAIN fields : f # "error" /\ fields[f] # <<>>

\* C9: when the successful answer carries no usable text field, the
\* completion client fails; it does not return a value.
C9_EmptyResponseFails ==
  (last.outcome # "none" /\ UpstreamSucceeded /\ ~UsableText(last.up.fields))
    => ~last.ret.ok

\* C10: after an invocation that passed validation, whose completion call
\* settled (with a text, an empty text or a failure) and was not answered with
\* the sentinel, the result pane is not empty.
C10_ResultPaneNeverEmpty ==
  (/\ last.outcome \notin {"none", "validation", "rejected"}
   /\ last.ret # NoRet
   /\ ~SentinelReply)
    => last.shown # <<>>

\* C11: a failed history write (remote insert or local save) is only logged:
\* the invocation still ends as done, the result it produced is the one
\* displayed, and no destructive toast is shown.
C11_HistoryFailureInvisible ==
  (last.saved = "failed")
    => (/\ last.outcome = "done"
        /\ last.shown = last.out
        /\ ~last.toast.destructive)

\* C12: the busy flag does not wait for the history write: no handler
\* instance is suspended at its history write while the flag is still set.
C12_BusyNotHeldByHistoryWrite ==
  \A i \in 1..Len(calls) : calls[i].pc = "save" => busy = FALSE

\* C13: every test-generation invocation whose provider call fails shows a
\* placeholder that contains the identifier extracted from the source it was
\* invoked on, a repeated invocation on unchanged source included.
C13_PlaceholderNamesIdentifier ==
  (tool = "test" /\ last.outcome = "done" /\ last.fallbackRan)
    => ExtractIdentifier(last.src) \in Range(last.shown)

\* a text the spec's own normalisation steps leave alone: no fence marker in
\* it, no run of three or more blank lines, no surrounding whitespace
PlainText(x) ==
  /\ Fence \notin Range(x)
  /\ Trim(x) = x
  /\ CollapseBlank(x) = x

\* C14: for a completion text that wraps X in a leading and a trailing code
\* fence, with or without a language tag, normalisation removes the two
\* fence markers and nothing else: it returns X unchanged.
C14_FencedTextUnwrapsToInner ==
  (pure.fn = "normalize" /\ pure.fenced /\ Len(pure.outs) >= 1 /\ PlainText(pure.inner))
    => pure.outs[1] = pure.inner

\* C15: each page's normalisation is idempotent: applying it to its own
\* output changes nothing.
C15_NormalizeIdempotent ==
  (pure.fn = "normalize" /\ Len(pure.outs) >= 2) => pure.outs[2] = pure.outs[1]

\* C16: in every tool mode the message shown when the provider returns the
\* rejection sentinel differs from the message shown when the provider call
\* fails.
C16_SentinelMessageDiffersFromFailure ==
  (SentinelReply /\ failureToast # NoToast) => last.toast # failureToast

\* C17: detectLanguage is deterministic: two calls on the same text return
\* the same { language, confidence } pair, whatever the external service
\* answered.
C17_DetectLanguageDeterministic ==
  (pure.fn = "detectLanguage" /\ Len(pure.results) >= 2)
    => pure.results[1].returned = pure.results[2].returned

\* C18: building the prompt never throws for an unrecognized option value: a
\* default is substituted and the invocation proceeds to the provider call.
C18_UnknownOptionReachesProvider ==
  (tool = "document" /\ ~optionsOk /\ last.outcome \notin {"none", "validation"})
    => last.ret # NoRet

\* C19: in every mode other than generate an action invoked on empty or
\* whitespace-only source text sends no request; in generate mode the same
\* holds for an empty description, which the page keeps in the same field.
C19_EmptySourceSendsNothing ==
  (last.outcome # "none" /\ Trim(last.src) = <<>>) => last.sent = 0

\* C20: the fallback synthesizer is deterministic: for a fixed request (mode,
\* language, source, options) it returns the same artifact on every call.
C20_FallbackDeterministic ==
  (pure.fn = "fallback" /\ Len(pure.artifacts) >= 2)
    => pure.artifacts[1] = pure.artifacts[2]

C22_EarlierResultNotLeftDisplayed ==
  (tool \in PromptTools /\ last.outcome \in {"error", "rejected"}) => result = <<>>

\* C23: for an input text in which no language pattern matches, detectLanguage
\* (when the answer is not the external service's) returns language "text"
\* with confidence 0.
C23_NoPatternMeansText ==
  \A k \in 1..(IF pure.fn = "detectLanguage" THEN Len(pure.results) ELSE 0) :
    (PatternScore(pure.code) = 0 /\ pure.results[k].returned.confidence # 90)
      => pure.results[k].returned = [language |-> <<"text">>, confidence |-> 0]

\* what the claim expects of a text: every run of three or more blank lines
\* (four or more line breaks) becomes one blank line, shorter runs stay
RECURSIVE OneBlankLineForLongRuns(_)
OneBlankLineForLongRuns(s) ==
  IF s = <<>> THEN <<>>
  ELSE IF NLRunLen(s) >= 4
       THEN <<NL, NL>> \o OneBlankLineForLongRuns(SubSeq(s, NLRunLen(s) + 1, Len(s)))
  ELSE IF NLRunLen(s) >= 1
       THEN SubSeq(s, 1, NLRunLen(s))
              \o OneBlankLineForLongRuns(SubSeq(s, NLRunLen(s) + 1, Len(s)))
  ELSE <<Head(s)>> \o OneBlankLineForLongRuns(Tail(s))

\* C24: normalisation turns every run of three or more consecutive blank
\* lines of the provider text into exactly one blank line and leaves shorter
\* runs of blank lines as they are (texts of words and line breaks, with no
\* surrounding white space).
C24_BlankLineRunsCollapsed ==
  (/\ pure.fn = "normalize"
   /\ ~pure.fenced
   /\ Len(pure.outs) >= 1
   /\ Range(pure.raw) \subseteq {"x", NL}
   /\ Trim(pure.raw) = pure.raw)
    => pure.outs[1] = OneBlankLineForLongRuns(pure.raw)

\* C25: when signOut returns, the local user, profile and session are all
\* null, whether the remote sign-out succeeded, returned an error, or threw.
C25_SignOutResetsLocalState ==
  [][(pure.fn = "AuthProvider" /\ pure.signOut = "calling" /\ pure'.signOut # "calling")
       => (pure'.user = "none" /\ pure'.profile = "none" /\ pure'.session = "none")]_vars

\* C26: once the auth provider has mounted, and as long as it stays mounted,
\* isLoading eventually becomes false, and it is false once the safety
\* timeout has fired, even if the session lookup or the profile fetch never
\* completes.
C26_LoadingEventuallyCleared ==
  /\ <>(~pure.mounted \/ ~pure.isLoading)
  /\ []((pure.timer = "fired" /\ pure.mounted) => ~pure.isLoading)

\* the timeout cleared isLoading while initAuth was still waiting for the
\* session lookup or for the profile fetch
C26_Witness ==
  /\ pure.fn = "AuthProvider"
  /\ pure.init \in {"getSession", "handling"}
  /\ pure.timer = "fired"
  /\ pure.mounted
  /\ ~pure.isLoading

\* C27: whenever no auth operation is in flight, the stored profile is
\* non-null only if it belongs to the stored user: a profile fetch started for
\* one session never sets the profile after a sign-out or another sign-in.
C27_ProfileBelongsToUser ==
  (/\ pure.fn = "AuthProvider"
   /\ pure.mounted
   /\ pure.pending = <<>>
   /\ pure.init = "done"
   /\ pure.signOut # "calling")
    => (pure.profile # "none" => pure.profile = pure.user)

\* C28: every call of a secureApi method settles: once the underlying
\* request has resolved the returned promise resolves, and once the
\* underlying request has been rejected the returned promise is rejected.
C28_EveryCallSettles ==
  \A i \in 1..MaxCalls :
    (Len(pure.calls) >= i /\ pure.calls[i].request # "pending")
      ~> (/\ Len(pure.calls) >= i
          /\ pure.calls[i].outer =
               IF pure.calls[i].request = "fulfilled" THEN "resolved" ELSE "rejected")

\* C29: a request answered with 401 is refreshed and sent again at most
\* once; a second 401, for the request sent again, is rejected without a
\* further refresh.
C29_AtMostOneRefresh ==
  \A i \in 1..(IF pure.fn = "secureApi" THEN Len(pure.calls) ELSE 0) :
    LET c == pure.calls[i] IN
      /\ c.refreshes <= 1
      /\ c.sends <= 2
      /\ (c.sends = 2 /\ c.answer = 401)
           => (c.phase = "done" /\ c.request = "rejected" /\ c.refreshes = 1)

\* a request was refreshed, sent again and answered with 401 again
C29_Witness ==
  /\ pure.fn = "secureApi"
  /\ \E i \in 1..Len(pure.calls) :
       /\ pure.calls[i].sends = 2
       /\ pure.calls[i].answer = 401
       /\ pure.calls[i].refreshes = 1
       /\ pure.calls[i].request = "rejected"

\* C30: in the code runner, after any sequence of add-file and delete-file
\* operations, no two files of the project have the same name.
C30_FileNamesDistinct ==
  pure.fn = "files" =>
    \A i, j \in 1..Len(pure.files) : i # j => pure.files[i].name # pure.files[j].name

====
